---- MODULE Spec2Model ----
(***************************************************************************)
(* Model of openapi_agent_tools: the tool generator                        *)
(* (parse_openapi.generate_tools_from_openapi, process_schema) and the     *)
(* tool validator (schema_validator.fix_schema_references,                 *)
(* validate_and_fix_tool, validate_and_fix_tools).                         *)
(*                                                                         *)
(* Python values are triples <<k, o, v>>:                                   *)
(*   x[1]  k, the kind: "str", "null", "bool", "list", "dict", or "exc"    *)
(*         for a raised exception travelling up the call stack;            *)
(*   x[2]  o, the allocation that made a mutable object: "in" for the      *)
(*         objects of the caller's argument, "copy" for those made by      *)
(*         copy.deepcopy, "new" for those a function builds itself; "val"  *)
(*         for immutables.  A write to an object tagged "in" is a write    *)
(*         the caller sees;                                                *)
(*   x[3]  v, the payload: a str is the sequence of its characters, a list *)
(*         the sequence of its elements, a dict the sequence of its        *)
(*         <<key, value>> pairs in insertion order (keys are character     *)
(*         sequences).                                                     *)
(***************************************************************************)
EXTENDS Integers, Sequences, FiniteSets, TLC

VARIABLES pc, op, arg, ret, after, tools, idx, fixed_tools, failed_tools

vars == <<pc, op, arg, ret, after, tools, idx, fixed_tools, failed_tools>>

(***************************************************************************)
(* String literals of the source, as character sequences.                  *)
(***************************************************************************)
s_ref == <<"$", "r", "e", "f">>

s_components == <<"#", "/", "c", "o", "m", "p", "o", "n", "e", "n", "t", "s", "/">>

s_anyOf == <<"a", "n", "y", "O", "f">>

s_type == <<"t", "y", "p", "e">>

s_null == <<"n", "u", "l", "l">>

s_string == <<"s", "t", "r", "i", "n", "g">>

s_name == <<"n", "a", "m", "e">>

s_description == <<"d", "e", "s", "c", "r", "i", "p", "t", "i", "o", "n">>

s_input_schema == <<"i", "n", "p", "u", "t", "_", "s", "c", "h", "e", "m", "a">>

s_tool_to == <<"T", "o", "o", "l", " ", "t", "o", " ">>

s_ellipsis == <<".", ".", ".">>

s_object == <<"o", "b", "j", "e", "c", "t">>

s_missing_field == <<"T", "o", "o", "l", " ", "i", "s", " ", "m", "i", "s", "s", "i", "n", "g", " ", "r", "e", "q", "u", "i", "r", "e", "d", " ", "f", "i", "e", "l", "d", ":", " ">>

s_must_be_object == <<"i", "n", "p", "u", "t", "_", "s", "c", "h", "e", "m", "a", " ", "m", "u", "s", "t", " ", "b", "e", " ", "a", "n", " ", "o", "b", "j", "e", "c", "t">>

s_tool == <<"t", "o", "o", "l">>

s_error == <<"e", "r", "r", "o", "r">>

s_object_has_no_attribute == <<"'", " ", "o", "b", "j", "e", "c", "t", " ", "h", "a", "s", " ", "n", "o", " ", "a", "t", "t", "r", "i", "b", "u", "t", "e", " ", "'">>

s_items_method == <<"i", "t", "e", "m", "s">>

s_replace_method == <<"r", "e", "p", "l", "a", "c", "e">>

s_split_method == <<"s", "p", "l", "i", "t">>

s_get_method == <<"g", "e", "t">>

s_argument_of_type == <<"a", "r", "g", "u", "m", "e", "n", "t", " ", "o", "f", " ", "t", "y", "p", "e", " ", "'">>

s_is_not_iterable == <<"'", " ", "i", "s", " ", "n", "o", "t", " ", "i", "t", "e", "r", "a", "b", "l", "e">>

s_indices_must_be_integers == <<" ", "i", "n", "d", "i", "c", "e", "s", " ", "m", "u", "s", "t", " ", "b", "e", " ", "i", "n", "t", "e", "g", "e", "r", "s">>

s_object_of_type == <<"o", "b", "j", "e", "c", "t", " ", "o", "f", " ", "t", "y", "p", "e", " ", "'">>

s_has_no_len == <<"'", " ", "h", "a", "s", " ", "n", "o", " ", "l", "e", "n", "(", ")">>

s_copy_method == <<"c", "o", "p", "y">>

s_unsupported_operand == <<"u", "n", "s", "u", "p", "p", "o", "r", "t", "e", "d", " ", "o", "p", "e", "r", "a", "n", "d", " ", "t", "y", "p", "e", "(", "s", ")", " ", "f", "o", "r", " ", "+">>

s_paths == <<"p", "a", "t", "h", "s">>

s_get == <<"g", "e", "t">>

s_post == <<"p", "o", "s", "t">>

s_patch == <<"p", "a", "t", "c", "h">>

s_delete == <<"d", "e", "l", "e", "t", "e">>

s_api_call == <<"a", "p", "i", "_", "c", "a", "l", "l", "_">>

s_summary == <<"s", "u", "m", "m", "a", "r", "y">>

s_responses == <<"r", "e", "s", "p", "o", "n", "s", "e", "s">>

s_200 == <<"2", "0", "0">>

s_properties == <<"p", "r", "o", "p", "e", "r", "t", "i", "e", "s">>

s_url == <<"u", "r", "l">>

s_url_description == <<"U", "R", "L", " ", "t", "o", " ", "s", "e", "n", "d", " ", "t", "h", "e", " ", "r", "e", "q", "u", "e", "s", "t", " ", "t", "o">>

s_default == <<"d", "e", "f", "a", "u", "l", "t">>

s_method == <<"m", "e", "t", "h", "o", "d">>

s_method_description == <<"H", "T", "T", "P", " ", "m", "e", "t", "h", "o", "d", " ", "t", "o", " ", "u", "s", "e">>

s_enum == <<"e", "n", "u", "m">>

s_required == <<"r", "e", "q", "u", "i", "r", "e", "d">>

s_requestBody == <<"r", "e", "q", "u", "e", "s", "t", "B", "o", "d", "y">>

s_content == <<"c", "o", "n", "t", "e", "n", "t">>

s_application_json == <<"a", "p", "p", "l", "i", "c", "a", "t", "i", "o", "n", "/", "j", "s", "o", "n">>

s_schema == <<"s", "c", "h", "e", "m", "a">>

s_multipart == <<"m", "u", "l", "t", "i", "p", "a", "r", "t", "/", "f", "o", "r", "m", "-", "d", "a", "t", "a">>

s_form_data == <<"F", "o", "r", "m", " ", "d", "a", "t", "a", " ", "f", "o", "r", " ", "f", "i", "l", "e", " ", "u", "p", "l", "o", "a", "d">>

s_file == <<"f", "i", "l", "e">>

s_notes == <<"n", "o", "t", "e", "s">>

s_upload_note == <<"C", "o", "n", "t", "a", "i", "n", "s", " ", "f", "i", "l", "e", " ", "u", "p", "l", "o", "a", "d", ".", " ", "U", "s", "e", " ", "b", "a", "s", "e", "6", "4", " ", "e", "n", "c", "o", "d", "e", "d", " ", "c", "o", "n", "t", "e", "n", "t", ".">>

s_parameters == <<"p", "a", "r", "a", "m", "e", "t", "e", "r", "s">>

s_params == <<"p", "a", "r", "a", "m", "s">>

s_items == <<"i", "t", "e", "m", "s">>

s_oneOf == <<"o", "n", "e", "O", "f">>

s_allOf == <<"a", "l", "l", "O", "f">>

s_simplified == <<" ", "(", "S", "i", "m", "p", "l", "i", "f", "i", "e", "d", " ", "f", "r", "o", "m", " ", "m", "u", "l", "t", "i", "p", "l", "e", " ", "o", "p", "t", "i", "o", "n", "s", ")">>

s_no_description == <<"N", "o", " ", "d", "e", "s", "c", "r", "i", "p", "t", "i", "o", "n", " ", "a", "v", "a", "i", "l", "a", "b", "l", "e">>


(***************************************************************************)
(* Values.                                                                 *)
(***************************************************************************)
S(cs) == <<"str", "val", cs>>

None == <<"null", "val", <<>>>>

Bool(b) == <<"bool", "val", b>>

L(o, xs) == <<"list", o, xs>>

D(o, kvs) == <<"dict", o, kvs>>

\* A raised exception: its class and str(e).
Raise(class, msg) == <<"exc", "val", <<class, msg>>>>

IsStr(x) == x[1] = "str"

IsList(x) == x[1] = "list"

IsDict(x) == x[1] = "dict"

IsExc(x) == x[1] = "exc"

\* bool(x)
Truthy(x) ==
    CASE x[1] = "null" -> FALSE
      [] x[1] = "bool" -> x[3]
      [] OTHER -> Len(x[3]) > 0

\* The value without its allocation tags: what Python's == compares
\* (dict equality also ignores key order; the model keeps the order).
RECURSIVE Plain(_)
Plain(x) ==
    CASE x[1] = "list" -> L("any", [i \in 1..Len(x[3]) |-> Plain(x[3][i])])
      [] x[1] = "dict" -> D("any", [i \in 1..Len(x[3]) |-> <<x[3][i][1], Plain(x[3][i][2])>>])
      [] OTHER -> x

\* The allocation tags of the mutable objects reachable from x.
RECURSIVE Origins(_)
Origins(x) ==
    CASE x[1] = "list" -> {x[2]} \cup UNION {Origins(x[3][i]) : i \in 1..Len(x[3])}
      [] x[1] = "dict" -> {x[2]} \cup UNION {Origins(x[3][i][2]) : i \in 1..Len(x[3])}
      [] OTHER -> {}

\* key in d
Has(d, key) == \E i \in 1..Len(d[3]) : d[3][i][1] = key

KeyIndex(d, key) == CHOOSE i \in 1..Len(d[3]) : d[3][i][1] = key

\* d[key]
Get(d, key) == d[3][KeyIndex(d, key)][2]

\* d.get(key, dflt)
GetOr(d, key, dflt) == IF Has(d, key) THEN Get(d, key) ELSE dflt

\* d[key] = val: an existing key keeps its position, a new key goes last.
Put(d, key, val) ==
    IF Has(d, key)
    THEN [d EXCEPT ![3][KeyIndex(d, key)] = <<key, val>>]
    ELSE [d EXCEPT ![3] = Append(@, <<key, val>>)]

\* d[key] = val where computing val may have raised.
PutE(d, key, val) == IF IsExc(val) THEN val ELSE Put(d, key, val)

(***************************************************************************)
(* str methods.                                                            *)
(***************************************************************************)
Min(a, b) == IF a < b THEN a ELSE b

\* s[:n]
Prefix(s, n) == SubSeq(s, 1, Min(n, Len(s)))

\* s.startswith(p)
StartsWith(s, p) == Len(s) >= Len(p) /\ SubSeq(s, 1, Len(p)) = p

\* s.endswith(p)
EndsWith(s, p) == Len(s) >= Len(p) /\ SubSeq(s, Len(s) - Len(p) + 1, Len(s)) = p

\* p in s, for strings
IsSubstr(p, s) == \E i \in 0..(Len(s) - Len(p)) : SubSeq(s, i + 1, i + Len(p)) = p

\* s.replace(c, r) for a one-character c and an r of at most one character
Replace(s, c, r) ==
    IF r = <<>> THEN SelectSeq(s, LAMBDA ch : ch # c)
    ELSE [i \in 1..Len(s) |-> IF s[i] = c THEN r[1] ELSE s[i]]

\* s.split(c) for a one-character c: the pieces between the separators.
RECURSIVE Split(_, _)
Split(s, c) ==
    IF \A i \in 1..Len(s) : s[i] # c THEN <<s>>
    ELSE LET first == CHOOSE i \in 1..Len(s) :
                          s[i] = c /\ \A j \in 1..(i - 1) : s[j] # c
         IN  <<SubSeq(s, 1, first - 1)>> \o Split(SubSeq(s, first + 1, Len(s)), c)

\* sep.join(parts)
RECURSIVE Join(_, _)
Join(parts, sep) ==
    IF parts = <<>> THEN <<>>
    ELSE IF Len(parts) = 1 THEN parts[1]
    ELSE parts[1] \o sep \o Join(Tail(parts), sep)

(***************************************************************************)
(* schema_validator.fix_schema_references                                  *)
(***************************************************************************)
\* type(x).__name__
TypeName(x) ==
    CASE x[1] = "str" -> <<"s", "t", "r">>
      [] x[1] = "list" -> <<"l", "i", "s", "t">>
      [] x[1] = "dict" -> <<"d", "i", "c", "t">>
      [] x[1] = "bool" -> <<"b", "o", "o", "l">>
      [] OTHER -> <<"N", "o", "n", "e", "T", "y", "p", "e">>

\* x.attr on an object without that attribute
NoAttribute(x, attr) ==
    Raise("AttributeError",
          <<"'">> \o TypeName(x) \o s_object_has_no_attribute \o attr \o <<"'">>)

\* item.get("type") == "null" on a dict item
IsNullType(item) == IsDict(item) /\ Has(item, s_type) /\ Get(item, s_type) = S(s_null)

\* Faulty variant of ScanAnyOf: the null type is looked for in the last element only.
ScanAnyOfNullLast(value) ==
    [type_obj |-> IF IsNullType(value[3][1]) THEN None ELSE value[3][1],
     has_null |-> IsNullType(value[3][Len(value[3])])]

\* The scan of the two anyOf elements: the last element that is not a
\* null type (None when there is none) and whether a null type was seen.
ScanAnyOf(value) ==
    LET nonnull == {i \in 1..Len(value[3]) : ~IsNullType(value[3][i])}
        last == CHOOSE i \in nonnull : \A j \in nonnull : j <= i
    IN  [type_obj |-> IF nonnull = {} THEN None ELSE value[3][last],
         has_null |-> \E i \in 1..Len(value[3]) : IsNullType(value[3][i])]

RECURSIVE fix_schema_references(_)
RECURSIVE FixItems(_, _, _)
RECURSIVE FixList(_, _)
RECURSIVE CopyTypeObj(_, _, _)

\* [fix_schema_references(item) for item in value], from element i on
FixList(xs, i) ==
    IF i > Len(xs) THEN L("new", <<>>)
    ELSE LET head == fix_schema_references(xs[i])
             rest == FixList(xs, i + 1)
         IN  IF IsExc(head) THEN head
             ELSE IF IsExc(rest) THEN rest
             ELSE L("new", <<head>> \o rest[3])

\* for k, v in type_obj.items(): the concrete element's keys copied into
\* result, type made nullable
CopyTypeObj(type_obj, i, result) ==
    IF IsExc(result) \/ i > Len(type_obj[3]) THEN result
    ELSE LET k == type_obj[3][i][1]
             v == type_obj[3][i][2]
         IN  CopyTypeObj(type_obj, i + 1,
                 IF k = s_type
                 THEN Put(result, s_type, L("new", <<v, S(s_null)>>))
                 ELSE PutE(result, k, fix_schema_references(v)))

\* The 2-element anyOf branch: what it leaves in result.
CollapseAnyOf(value, result) ==
    LET scan == ScanAnyOf(value)
        type_obj == scan.type_obj
    IN  IF scan.has_null /\ Truthy(type_obj)
        THEN IF IsDict(type_obj) /\ Has(type_obj, s_ref)
             THEN Put(result, s_type, L("new", <<S(s_string), S(s_null)>>))
             ELSE IF IsDict(type_obj)
             THEN CopyTypeObj(type_obj, 1, result)
             ELSE NoAttribute(type_obj, s_items_method)
        ELSE result

\* for key, value in schema.items(), from item i on
FixItems(schema, i, result) ==
    IF IsExc(result) \/ i > Len(schema[3]) THEN result
    ELSE LET key == schema[3][i][1]
             value == schema[3][i][2]
         IN  FixItems(schema, i + 1,
                 IF key = s_ref /\ IsStr(value) /\ StartsWith(value[3], s_components)
                 THEN result
                 ELSE IF key = s_anyOf /\ IsList(value) /\ Len(value[3]) = 2
                 THEN CollapseAnyOf(value, result)
                 ELSE IF IsDict(value)
                 THEN PutE(result, key, fix_schema_references(value))
                 ELSE IF IsList(value)
                 THEN PutE(result, key, FixList(value[3], 1))
                 ELSE Put(result, key, value))

fix_schema_references(schema) ==
    IF ~IsDict(schema) THEN schema
    ELSE FixItems(schema, 1, D("new", <<>>))

(***************************************************************************)
(* schema_validator.validate_and_fix_tool                                  *)
(***************************************************************************)
MaxNameLen == 64

TruncKeep == 60

required_fields == <<s_name, s_description, s_input_schema>>

\* Faulty variant of DeepCopy: the copy left out, fixed_tool is the caller's tool.
DeepCopyAlias(x) == x

\* copy.deepcopy(x): every mutable object of x allocated anew.
RECURSIVE DeepCopy(_)
DeepCopy(x) ==
    CASE x[1] = "list" -> L("copy", [i \in 1..Len(x[3]) |-> DeepCopy(x[3][i])])
      [] x[1] = "dict" -> D("copy", [i \in 1..Len(x[3]) |-> <<x[3][i][1], DeepCopy(x[3][i][2])>>])
      [] OTHER -> x

\* field in x, for a str field
Contains(x, field) ==
    CASE IsDict(x) -> Bool(Has(x, field))
      [] IsStr(x) -> Bool(IsSubstr(field, x[3]))
      [] IsList(x) -> Bool(\E i \in 1..Len(x[3]) : x[3][i] = S(field))
      [] OTHER -> Raise("TypeError", s_argument_of_type \o TypeName(x) \o s_is_not_iterable)

\* x[key], for a str key
GetItem(x, key) ==
    IF IsDict(x)
    THEN IF Has(x, key) THEN Get(x, key)
         ELSE Raise("KeyError", <<"'">> \o key \o <<"'">>)
    ELSE Raise("TypeError", TypeName(x) \o s_indices_must_be_integers)

\* The running call: obj is fixed_tool, arg the caller's tool as the
\* caller sees it, exc the exception raised so far (None: none).
\* obj[key] = val: the caller sees the write when obj is its own object.
SetItem(st, key, val) ==
    [st EXCEPT !.obj = Put(@, key, val),
               !.arg = IF st.obj[2] = "in" THEN Put(@, key, val) ELSE @]

\* obj[outer][key] = val: a write to the object stored under outer.
SetNested(st, outer, key, val) ==
    [st EXCEPT !.obj = Put(@, outer, Put(Get(@, outer), key, val)),
               !.arg = IF Get(st.obj, outer)[2] = "in"
                       THEN Put(@, outer, Put(Get(@, outer), key, val))
                       ELSE @]

Throw(st, exc) == [st EXCEPT !.exc = exc]

\* f"Tool to {name.replace('_', ' ')}"
DefaultDescription(name) ==
    IF IsExc(name) THEN name
    ELSE IF IsStr(name) THEN S(s_tool_to \o Replace(name[3], "_", <<" ">>))
    ELSE NoAttribute(name, s_replace_method)

MissingField(field) == Raise("ValueError", s_missing_field \o field)

\* Faulty variant of CheckField: a missing description is not defaulted.
CheckFieldNoDefault(st, field) ==
    LET present == Contains(st.obj, field)
    IN  IF IsExc(present) THEN Throw(st, present)
        ELSE IF present[3] THEN st
        ELSE Throw(st, MissingField(field))

\* One turn of the loop over required_fields.
CheckField(st, field) ==
    LET present == Contains(st.obj, field)
    IN  IF IsExc(present) THEN Throw(st, present)
        ELSE IF present[3] THEN st
        ELSE IF field = s_description /\ Contains(st.obj, s_name)[3]
        THEN LET description == DefaultDescription(GetItem(st.obj, s_name))
             IN  IF IsExc(description) THEN Throw(st, description)
                 ELSE SetItem(st, s_description, description)
        ELSE Throw(st, MissingField(field))

RECURSIVE RequiredFields(_, _)
RequiredFields(st, i) ==
    IF IsExc(st.exc) \/ i > Len(required_fields) THEN st
    ELSE RequiredFields(CheckField(st, required_fields[i]), i + 1)

\* Faulty variant of TruncateName: the two separators are not charged to the budget
\* of the middle parts.
TruncateNameNoSeparators(original_name) ==
    LET parts == Split(original_name, "_")
    IN  IF Len(parts) >= 3
        THEN LET prefix == Join(SubSeq(parts, 1, 3), <<"_">>)
                 suffix == parts[Len(parts)]
                 remaining_chars == MaxNameLen - Len(prefix) - Len(suffix)
                 joined == Join(SubSeq(parts, 4, Len(parts) - 1), <<"_">>)
                 middle == IF Len(joined) > remaining_chars
                           THEN Prefix(joined, remaining_chars)
                           ELSE joined
             IN  IF remaining_chars > 0
                 THEN prefix \o <<"_">> \o middle \o <<"_">> \o suffix
                 ELSE Prefix(original_name, TruncKeep) \o s_ellipsis
        ELSE Prefix(original_name, TruncKeep) \o s_ellipsis

\* Faulty variant of TruncateName: the reassembled name is cut to MaxNameLen from
\* the right end instead of the middle.
TruncateNameCutTail(original_name) ==
    LET parts == Split(original_name, "_")
    IN  IF Len(parts) >= 3
        THEN Prefix(original_name, MaxNameLen)
        ELSE Prefix(original_name, TruncKeep) \o s_ellipsis

\* The name-length policy applied to a name longer than MaxNameLen.
TruncateName(original_name) ==
    LET parts == Split(original_name, "_")
    IN  IF Len(parts) >= 3
        THEN LET prefix == Join(SubSeq(parts, 1, 3), <<"_">>)
                 suffix == parts[Len(parts)]
                 remaining_chars == MaxNameLen - Len(prefix) - Len(suffix) - 2
                 joined == Join(SubSeq(parts, 4, Len(parts) - 1), <<"_">>)
                 middle == IF Len(joined) > remaining_chars
                           THEN Prefix(joined, remaining_chars)
                           ELSE joined
             IN  IF remaining_chars > 0
                 THEN prefix \o <<"_">> \o middle \o <<"_">> \o suffix
                 ELSE Prefix(original_name, TruncKeep) \o s_ellipsis
        ELSE Prefix(original_name, TruncKeep) \o s_ellipsis

FixName(st) ==
    IF IsExc(st.exc) THEN st
    ELSE LET name == GetItem(st.obj, s_name)
         IN  IF IsExc(name) THEN Throw(st, name)
             ELSE IF name[1] \notin {"str", "list", "dict"}
             THEN Throw(st, Raise("TypeError", s_object_of_type \o TypeName(name) \o s_has_no_len))
             ELSE IF Len(name[3]) > MaxNameLen
             THEN IF IsStr(name) THEN SetItem(st, s_name, S(TruncateName(name[3])))
                  ELSE Throw(st, NoAttribute(name, s_split_method))
             ELSE st

FixInputSchema(st) ==
    IF IsExc(st.exc) \/ ~Contains(st.obj, s_input_schema)[3] THEN st
    ELSE LET input_schema == GetItem(st.obj, s_input_schema)
             typed == IF Has(input_schema, s_type) THEN st
                      ELSE SetNested(st, s_input_schema, s_type, S(s_object))
             fixed == fix_schema_references(Get(typed.obj, s_input_schema))
         IN  IF ~IsDict(input_schema)
             THEN Throw(st, Raise("ValueError", s_must_be_object))
             ELSE IF IsExc(fixed) THEN Throw(typed, fixed)
             ELSE SetItem(typed, s_input_schema, fixed)

\* The call's outcome: ret is the returned tool or the exception raised,
\* after is the caller's tool once the call is over.
validate_and_fix_tool(tool) ==
    LET st == FixInputSchema(FixName(RequiredFields(
                  [obj |-> DeepCopy(tool), arg |-> tool, exc |-> None], 1)))
    IN  [ret |-> IF IsExc(st.exc) THEN st.exc ELSE st.obj, after |-> st.arg]

(***************************************************************************)
(* parse_openapi.process_schema                                            *)
(***************************************************************************)
compositions == {s_anyOf, s_oneOf, s_allOf}

\* schema.get("description", "") + " (Simplified from multiple options)"
SimplifiedDescription(schema) ==
    LET description == GetOr(schema, s_description, S(<<>>))
    IN  IF IsStr(description) THEN S(description[3] \o s_simplified)
        ELSE Raise("TypeError", s_unsupported_operand)

\* for option_key, option_value in first_option.items(): result[...] = ...
RECURSIVE Merge(_, _, _)
Merge(result, option, i) ==
    IF i > Len(option[3]) THEN result
    ELSE Merge(Put(result, option[3][i][1], option[3][i][2]), option, i + 1)

RECURSIVE process_schema(_)
RECURSIVE ProcessItems(_, _, _)
RECURSIVE ProcessProperties(_, _, _)

\* for prop_name, prop_schema in value.items(), from property i on
ProcessProperties(value, i, props) ==
    IF IsExc(props) \/ i > Len(value[3]) THEN props
    ELSE ProcessProperties(value, i + 1,
             PutE(props, value[3][i][1], process_schema(value[3][i][2])))

\* Faulty variant of Simplify: the first option is merged as it is, not processed.
SimplifyUnprocessed(schema, value, result) ==
    IF IsList(value) /\ Len(value[3]) > 0
    THEN LET first_option == value[3][1]
             description == SimplifiedDescription(schema)
         IN  IF ~IsDict(first_option) THEN NoAttribute(first_option, s_items_method)
             ELSE PutE(Merge(result, first_option, 1), s_description, description)
    ELSE result

\* The composition branch: the first option merged into result and the
\* description rewritten; nothing for an empty list or a non-list.
Simplify(schema, value, result) ==
    IF IsList(value) /\ Len(value[3]) > 0
    THEN LET first_option == process_schema(value[3][1])
             description == SimplifiedDescription(schema)
         IN  IF IsExc(first_option) THEN first_option
             ELSE PutE(Merge(result, first_option, 1), s_description, description)
    ELSE result

\* for key, value in schema.items(), from item i on
ProcessItems(schema, i, result) ==
    IF IsExc(result) \/ i > Len(schema[3]) THEN result
    ELSE LET key == schema[3][i][1]
             value == schema[3][i][2]
         IN  ProcessItems(schema, i + 1,
                 IF key = s_ref THEN result
                 ELSE IF key = s_properties /\ IsDict(value)
                 THEN PutE(result, key, ProcessProperties(value, 1, D("new", <<>>)))
                 ELSE IF key = s_items /\ IsDict(value)
                 THEN PutE(result, key, process_schema(value))
                 ELSE IF IsDict(value)
                 THEN PutE(result, key, process_schema(value))
                 ELSE IF key \in compositions
                 THEN Simplify(schema, value, result)
                 ELSE Put(result, key, value))

\* The defaults set once every key is processed.
EnsureTypeAndDescription(result) ==
    LET typed == IF Has(result, s_type) THEN result
                 ELSE Put(result, s_type, S(s_object))
    IN  IF Has(typed, s_description) THEN typed
        ELSE Put(typed, s_description, S(s_no_description))

process_schema(schema) ==
    IF ~IsDict(schema) THEN NoAttribute(schema, s_items_method)
    ELSE LET result == ProcessItems(schema, 1, D("new", <<>>))
         IN  IF IsExc(result) THEN result ELSE EnsureTypeAndDescription(result)

(***************************************************************************)
(* parse_openapi.generate_tools_from_openapi                               *)
(***************************************************************************)
LowerAlpha == <<"a", "b", "c", "d", "e", "f", "g", "h", "i", "j", "k", "l", "m", "n", "o", "p", "q", "r", "s", "t", "u", "v", "w", "x", "y", "z">>

UpperAlpha == <<"A", "B", "C", "D", "E", "F", "G", "H", "I", "J", "K", "L", "M", "N", "O", "P", "Q", "R", "S", "T", "U", "V", "W", "X", "Y", "Z">>

\* The character of sequence to at the place c has in sequence from.
MapChar(c, from, to) ==
    IF \E i \in 1..Len(from) : from[i] = c
    THEN to[CHOOSE i \in 1..Len(from) : from[i] = c]
    ELSE c

\* s.lower()
Lower(s) == [i \in 1..Len(s) |-> MapChar(s[i], UpperAlpha, LowerAlpha)]

\* s.upper()
Upper(s) == [i \in 1..Len(s) |-> MapChar(s[i], LowerAlpha, UpperAlpha)]

\* s.strip(c) for a one-character c
RECURSIVE LStrip(_, _)
LStrip(s, c) == IF s # <<>> /\ Head(s) = c THEN LStrip(Tail(s), c) ELSE s

RECURSIVE RStrip(_, _)
RStrip(s, c) ==
    IF s # <<>> /\ s[Len(s)] = c THEN RStrip(SubSeq(s, 1, Len(s) - 1), c) ELSE s

StripChar(s, c) == RStrip(LStrip(s, c), c)

supported_methods == {s_get, s_post, s_patch, s_delete}

\* Faulty variant of Supported: the method is compared as written.
SupportedAsWritten(method) == method \in supported_methods

\* method.lower() in ["get", "post", "patch", "delete"]
Supported(method) == Lower(method) \in supported_methods

\* path.strip("/").replace("/", "_").replace("{", "").replace("}", "")
Endpoint(path) ==
    Replace(Replace(Replace(StripChar(path, "/"), "/", <<"_">>), "{", <<>>), "}", <<>>)

ToolName(method, path) == s_api_call \o Lower(method) \o <<"_">> \o Endpoint(path)

\* The tool's description.
OperationDescription(operation) ==
    LET description == GetOr(operation, s_description,
                             GetOr(operation, s_summary, S(<<>>)))
    IN  IF /\ ~Truthy(description)
           /\ Has(operation, s_responses)
           /\ Has(Get(operation, s_responses), s_200)
        THEN GetOr(Get(Get(operation, s_responses), s_200), s_description, S(<<>>))
        ELSE description

\* The input schema every tool starts from.
BaseInputSchema(method, path, base_url) ==
    D("new", <<
        <<s_type, S(s_object)>>,
        <<s_properties, D("new", <<
            <<s_url, D("new", <<
                <<s_type, S(s_string)>>,
                <<s_description, S(s_url_description)>>,
                <<s_default, S(base_url \o path)>> >>)>>,
            <<s_method, D("new", <<
                <<s_type, S(s_string)>>,
                <<s_description, S(s_method_description)>>,
                <<s_enum, L("new", <<S(Upper(method))>>)>> >>)>> >>)>>,
        <<s_required, L("new", <<S(s_url), S(s_method)>>)>> >>)

\* input_schema["properties"][name] = value
SetProperty(input_schema, name, value) ==
    IF IsExc(value) THEN value
    ELSE Put(input_schema, s_properties, Put(Get(input_schema, s_properties), name, value))

\* x.copy(): a new dict holding the same values.
ShallowCopy(x) == IF IsDict(x) THEN [x EXCEPT ![2] = "new"] ELSE NoAttribute(x, s_copy_method)

\* process_schema(schema.copy())
ProcessCopy(schema) ==
    IF IsExc(ShallowCopy(schema)) THEN ShallowCopy(schema)
    ELSE process_schema(ShallowCopy(schema))

\* The multipart request body: the description forced, the note added when
\* the raw schema has a property named file.
FormData(request_schema) ==
    LET requestBody == ProcessCopy(request_schema)
        described == Put(requestBody, s_description, S(s_form_data))
        properties == GetOr(request_schema, s_properties, D("new", <<>>))
    IN  IF IsExc(requestBody) THEN requestBody
        ELSE IF Has(request_schema, s_properties) /\ IsExc(Contains(properties, s_file))
        THEN Contains(properties, s_file)
        ELSE IF Has(request_schema, s_properties) /\ Contains(properties, s_file)[3]
        THEN Put(described, s_notes, S(s_upload_note))
        ELSE described

\* The request body step: JSON content before multipart content.
AddRequestBody(operation, input_schema) ==
    IF Has(operation, s_requestBody) /\ Has(Get(operation, s_requestBody), s_content)
    THEN LET content_types == Get(Get(operation, s_requestBody), s_content)
         IN  IF /\ Has(content_types, s_application_json)
                /\ Has(Get(content_types, s_application_json), s_schema)
             THEN SetProperty(input_schema, s_requestBody,
                      ProcessCopy(Get(Get(content_types, s_application_json), s_schema)))
             ELSE IF /\ Has(content_types, s_multipart)
                     /\ Has(Get(content_types, s_multipart), s_schema)
             THEN SetProperty(input_schema, s_requestBody,
                      FormData(Get(Get(content_types, s_multipart), s_schema)))
             ELSE input_schema
    ELSE input_schema

\* The parameter's schema as stored under its name: a copy, with the
\* parameter's own description when the schema has none.
ParamSchema(param) ==
    LET param_schema == ShallowCopy(Get(param, s_schema))
    IN  IF IsExc(param_schema) THEN param_schema
        ELSE IF ~Has(param_schema, s_description) /\ Has(param, s_description)
        THEN Put(param_schema, s_description, Get(param, s_description))
        ELSE param_schema

\* for param in operation["parameters"], from parameter i on
RECURSIVE ParamsLoop(_, _, _)
ParamsLoop(parameters, i, params_schema) ==
    IF IsExc(params_schema) \/ i > Len(parameters[3]) THEN params_schema
    ELSE LET param == parameters[3][i]
             param_name == GetItem(param, s_name)
             with_schema ==
                 IF Has(param, s_schema)
                 THEN SetProperty(params_schema, param_name[3], ParamSchema(param))
                 ELSE params_schema
             with_required ==
                 IF Truthy(GetOr(param, s_required, Bool(FALSE)))
                 THEN Put(with_schema, s_required,
                          L("new", Append(Get(with_schema, s_required)[3], param_name)))
                 ELSE with_schema
         IN  ParamsLoop(parameters, i + 1,
                 IF IsExc(param_name) THEN param_name
                 ELSE IF IsExc(with_schema) THEN with_schema
                 ELSE with_required)

\* The parameters step: params is attached when it has a property.
AddParameters(operation, input_schema) ==
    IF IsExc(input_schema) \/ ~Has(operation, s_parameters) THEN input_schema
    ELSE LET params_schema ==
                 ParamsLoop(Get(operation, s_parameters), 1,
                     D("new", <<<<s_type, S(s_object)>>,
                                <<s_properties, D("new", <<>>)>>,
                                <<s_required, L("new", <<>>)>>>>))
         IN  IF IsExc(params_schema) THEN params_schema
             ELSE IF Truthy(Get(params_schema, s_properties))
             THEN SetProperty(input_schema, s_params, params_schema)
             ELSE input_schema

\* The tool of one operation.
GenerateTool(path, method, operation, base_url) ==
    LET input_schema ==
            AddParameters(operation,
                AddRequestBody(operation, BaseInputSchema(method, path, base_url)))
    IN  IF ~IsDict(operation) THEN NoAttribute(operation, s_get_method)
        ELSE IF IsExc(input_schema) THEN input_schema
        ELSE D("new", <<<<s_name, S(ToolName(method, path))>>,
                        <<s_description, OperationDescription(operation)>>,
                        <<s_input_schema, input_schema>>>>)

\* for method, operation in path_item.items(), from method j on
RECURSIVE MethodsLoop(_, _, _, _, _)
MethodsLoop(path, path_item, j, base_url, generated) ==
    IF IsExc(generated) \/ j > Len(path_item[3]) THEN generated
    ELSE LET method == path_item[3][j][1]
             tool == GenerateTool(path, method, path_item[3][j][2], base_url)
         IN  MethodsLoop(path, path_item, j + 1, base_url,
                 IF ~Supported(method) THEN generated
                 ELSE IF IsExc(tool) THEN tool
                 ELSE L("new", Append(generated[3], tool)))

\* for path, path_item in openapi_spec.get("paths", {}).items(), from path i on
RECURSIVE PathsLoop(_, _, _, _)
PathsLoop(paths, i, base_url, generated) ==
    IF IsExc(generated) \/ i > Len(paths[3]) THEN generated
    ELSE PathsLoop(paths, i + 1, base_url,
             IF IsDict(paths[3][i][2])
             THEN MethodsLoop(paths[3][i][1], paths[3][i][2], 1, base_url, generated)
             ELSE NoAttribute(paths[3][i][2], s_items_method))

generate_tools_from_openapi(openapi_spec, base_url) ==
    PathsLoop(GetOr(openapi_spec, s_paths, D("new", <<>>)), 1, base_url, L("new", <<>>))

(***************************************************************************)
(* The inputs the calls are drawn from.                                    *)
(***************************************************************************)
\* Bounds.
MaxParts == 5

MaxNest == 1

\* Strings of the inputs that the source does not name.
t_integer == <<"i", "n", "t", "e", "g", "e", "r">>

t_array == <<"a", "r", "r", "a", "y">>

t_pointer == s_components \o <<"s", "c", "h", "e", "m", "a", "s", "/", "X">>

t_remote == <<"h", "t", "t", "p", ":", "/", "/", "x", "#", "/", "X">>

t_text == <<"D">>

t_extra == <<"x">>

t_short_name == <<"g", "e", "t", "_", "p", "e", "t">>

\* Tool names: up to MaxParts parts joined by "_", part i made of the
\* i-th letter, the part lengths drawn from PartLens.
PartLens == {0, 1, 29, 66}

PartChars == <<"a", "b", "c", "d", "e", "f", "g", "h">>

NamePart(i, n) == [j \in 1..n |-> PartChars[((i - 1) % Len(PartChars)) + 1]]

NameOf(lens) == Join([i \in 1..Len(lens) |-> NamePart(i, lens[i])], <<"_">>)

NameInputs == {NameOf(lens) : lens \in UNION {[1..n -> PartLens] : n \in 1..MaxParts}}

\* {"type": t}
TypeOnly(t) == D("in", <<<<s_type, S(t)>>>>)

\* The elements an anyOf list is made of.
RefOnly == D("in", <<<<s_ref, S(t_pointer)>>>>)

AnyOfElems ==
    { TypeOnly(s_string), TypeOnly(s_null), TypeOnly(t_integer),
      RefOnly,
      D("in", <<<<s_ref, S(t_pointer)>>, <<s_type, S(s_string)>>>>),
      D("in", <<<<s_type, S(s_null)>>, <<s_description, S(t_text)>>>>),
      D("in", <<>>),
      S(t_extra),
      D("in", <<<<s_type, S(t_array)>>, <<s_items, RefOnly>>,
                <<s_enum, L("in", <<RefOnly, S(t_extra)>>)>>>>),
      D("in", <<<<s_type, S(s_string)>>,
                <<s_anyOf, L("in", <<TypeOnly(t_integer), TypeOnly(s_null)>>)>>>>) }

AnyOfLists ==
    {L("in", <<a, b>>) : a \in AnyOfElems, b \in AnyOfElems}
    \cup {L("in", <<TypeOnly(s_string)>>),
          L("in", <<TypeOnly(s_string), TypeOnly(s_null), TypeOnly(t_integer)>>),
          L("in", <<>>)}

\* Fragments with an anyOf key, alone or with a type key before or after it
\* or another key after it.
AnyOfFrags ==
    UNION {{ D("in", <<<<s_anyOf, l>>>>),
             D("in", <<<<s_type, S(s_object)>>, <<s_anyOf, l>>>>),
             D("in", <<<<s_anyOf, l>>, <<s_type, S(s_object)>>>>),
             D("in", <<<<s_anyOf, l>>, <<s_description, S(t_text)>>>>) } : l \in AnyOfLists}

OtherFrags ==
    { TypeOnly(s_object), D("in", <<>>), RefOnly,
      D("in", <<<<s_ref, S(t_remote)>>>>),
      D("in", <<<<s_ref, None>>, <<s_type, S(s_string)>>>>),
      D("in", <<<<s_anyOf, TypeOnly(s_string)>>>>),
      D("in", <<<<s_type, S(t_array)>>, <<s_items, RefOnly>>,
                <<s_required, L("in", <<S(t_extra)>>)>>>>) }

\* A fragment as a property of an object, and as an element of a list.
AsProperty(f) ==
    D("in", <<<<s_type, S(s_object)>>,
              <<s_properties, D("in", <<<<t_extra, f>>>>)>>>>)

AsElement(f) ==
    D("in", <<<<s_type, S(s_object)>>,
              <<s_oneOf, L("in", <<TypeOnly(s_string), f>>)>>>>)

RECURSIVE Nested(_)
Nested(n) ==
    IF n = 0 THEN AnyOfFrags \cup OtherFrags
    ELSE Nested(n - 1) \cup {AsProperty(f) : f \in Nested(n - 1)}
                       \cup {AsElement(f) : f \in Nested(n - 1)}

SchemaInputs == Nested(MaxNest)

\* A tool with the given fields, in the order name, description,
\* input_schema; a field given as Absent is left out.
Absent == <<"absent", "val", <<>>>>

Tool(name, description, input_schema) ==
    D("in", SelectSeq(<<<<s_name, name>>, <<s_description, description>>,
                        <<s_input_schema, input_schema>>>>,
                      LAMBDA kv : kv[2] # Absent))

NameTools == {Tool(S(n), S(t_text), TypeOnly(s_object)) : n \in NameInputs}

SchemaTools == {Tool(S(t_short_name), S(t_text), f) : f \in SchemaInputs}

FieldTools ==
    {Tool(n, d, s) :
        n \in {Absent, None, S(t_short_name), S(NameOf(<<66, 1, 1, 29>>))},
        d \in {Absent, S(t_text)},
        s \in {Absent, S(t_extra), D("in", <<>>), TypeOnly(s_object)}}

\* Elements of a tool list that are not mappings.
OddTools ==
    { None, S(t_extra), S(Join(required_fields, <<" ">>)),
      L("in", <<S(s_name)>>),
      L("in", <<S(s_name), S(s_description), S(s_input_schema)>>) }

ToolInputs == NameTools \cup SchemaTools \cup FieldTools \cup OddTools

\* Tool lists of up to MaxBatch elements.
MaxBatch == 3

BatchElems ==
    { Tool(S(t_short_name), S(t_text), TypeOnly(s_object)),
      Tool(Absent, S(t_text), TypeOnly(s_object)),
      Tool(S(NameOf(<<66, 1, 1, 29>>)), Absent, D("in", <<>>)),
      Tool(S(t_short_name), S(t_text),
           D("in", <<<<s_anyOf, L("in", <<TypeOnly(s_null), S(t_extra)>>)>>>>)),
      Tool(None, S(t_text), TypeOnly(s_object)),
      S(t_extra) }

BatchInputs == UNION {[1..n -> BatchElems] : n \in 0..MaxBatch}

\* Schema fragments for process_schema.
t_enum == L("in", <<S(t_extra), S(t_text)>>)

Leaves ==
    { D("in", <<>>),
      TypeOnly(s_string),
      D("in", <<<<s_type, S(s_string)>>, <<s_description, S(t_text)>>>>),
      RefOnly,
      D("in", <<<<s_ref, S(t_remote)>>, <<s_type, S(t_integer)>>, <<s_enum, t_enum>>>>),
      D("in", <<<<s_description, S(t_extra)>>, <<t_extra, S(t_text)>>>>) }

\* The layouts of a fragment with the composition key c: the key alone,
\* and with description and type before or after it.
Layouts(c, l) ==
    { D("in", <<<<c, l>>>>),
      D("in", <<<<s_description, S(t_text)>>, <<c, l>>>>),
      D("in", <<<<c, l>>, <<s_description, S(t_text)>>>>),
      D("in", <<<<s_type, S(t_array)>>, <<c, l>>>>),
      D("in", <<<<c, l>>, <<s_type, S(t_array)>>>>),
      D("in", <<<<s_description, S(t_text)>>, <<s_type, S(t_array)>>, <<c, l>>>>) }

Compositions ==
    UNION {Layouts(c, l) :
              c \in compositions,
              l \in {L("in", <<a>>) : a \in Leaves}
                    \cup {L("in", <<a, TypeOnly(t_integer)>>) : a \in Leaves}
                    \cup {L("in", <<>>), TypeOnly(s_string), None}}

OddFragments ==
    { D("in", <<<<s_properties, D("in", <<<<t_extra, S(t_text)>>>>)>>>>),
      D("in", <<<<s_properties, t_enum>>, <<s_items, t_enum>>>>),
      D("in", <<<<s_anyOf, L("in", <<S(t_text)>>)>>>>),
      D("in", <<<<s_description, None>>, <<s_oneOf, L("in", <<TypeOnly(s_string)>>)>>>>),
      D("in", <<<<s_description, None>>, <<s_type, S(s_string)>>>>),
      D("in", <<<<s_properties, D("in", <<<<s_file, TypeOnly(s_string)>>>>)>>>>) }

\* A fragment under properties, under items, under a pass-through key and
\* as the first option of a composition.
Inside(f) ==
    { D("in", <<<<s_type, S(s_object)>>,
                <<s_properties, D("in", <<<<t_text, TypeOnly(s_string)>>, <<t_extra, f>>>>)>>>>),
      D("in", <<<<s_type, S(t_array)>>, <<s_items, f>>>>),
      D("in", <<<<s_default, f>>, <<s_enum, L("in", <<f>>)>>>>),
      D("in", <<<<s_description, S(t_extra)>>, <<s_allOf, L("in", <<f, TypeOnly(s_string)>>)>>>>) }

RECURSIVE Fragments(_)
Fragments(n) ==
    IF n = 0 THEN Leaves \cup Compositions \cup OddFragments
    ELSE Fragments(n - 1) \cup UNION {Inside(f) : f \in Fragments(n - 1)}

FragmentInputs == Fragments(MaxNest)

\* OpenAPI documents.
t_base_url == <<"h", "t", "t", "p", ":", "/", "/", "h">>

t_pets == <<"/", "p", "e", "t", "s">>

t_pet == <<"/", "p", "e", "t", "s", "/", "{", "p", "e", "t", "I", "d", "}", "/">>

t_summary == <<"S">>

t_response == <<"R">>

t_id == <<"i", "d">>

t_q == <<"q">>

\* The description, summary and responses of an operation.
OperationTexts ==
    {D("in", SelectSeq(<<<<s_description, d>>, <<s_summary, s>>, <<s_responses, r>>>>,
                       LAMBDA kv : kv[2] # Absent)) :
        d \in {Absent, S(<<>>), S(t_text)},
        s \in {Absent, S(<<>>), S(t_summary)},
        r \in {Absent,
               D("in", <<<<s_200, D("in", <<<<s_description, S(t_response)>>>>)>>>>),
               D("in", <<<<s_200, D("in", <<>>)>>>>)}}

\* A parameter; a field given as Absent is left out.
Param(name, required, schema, description) ==
    D("in", SelectSeq(<<<<s_name, name>>, <<s_required, required>>,
                        <<s_schema, schema>>, <<s_description, description>>>>,
                      LAMBDA kv : kv[2] # Absent))

ParamInputs ==
    {Param(S(n), r, s, d) :
        n \in {t_id},
        r \in {Absent, Bool(TRUE), Bool(FALSE)},
        s \in {Absent, TypeOnly(s_string),
               D("in", <<<<s_type, S(s_string)>>, <<s_description, S(t_text)>>>>)},
        d \in {Absent, S(t_summary)}}

ParameterLists ==
    {L("in", <<>>)} \cup {L("in", <<p>>) : p \in ParamInputs}
    \cup {L("in", <<Param(S(t_q), r, s, Absent), p>>) :
             r \in {Bool(TRUE), Bool(FALSE)}, s \in {Absent, TypeOnly(t_integer)},
             p \in ParamInputs}

\* requestBody.content with the given schemas; Absent leaves the media type
\* out, None gives the media type without a schema.
Content(json, form) ==
    LET media(s) == IF s = None THEN D("in", <<>>) ELSE D("in", <<<<s_schema, s>>>>)
    IN  D("in", <<<<s_content,
            D("in", SelectSeq(<<<<s_multipart, IF form = Absent THEN Absent ELSE media(form)>>,
                                <<s_application_json, IF json = Absent THEN Absent ELSE media(json)>>>>,
                              LAMBDA kv : kv[2] # Absent))>>>>)

BodySchemas ==
    { D("in", <<<<s_type, S(s_object)>>,
                <<s_properties, D("in", <<<<s_name, TypeOnly(s_string)>>>>)>>>>),
      D("in", <<<<s_type, S(s_object)>>,
                <<s_properties, D("in", <<<<s_file, TypeOnly(s_string)>>>>)>>>>),
      RefOnly,
      D("in", <<<<s_oneOf, L("in", <<TypeOnly(s_string), TypeOnly(t_integer)>>)>>>>),
      D("in", <<<<s_properties, D("in", <<<<t_extra, S(t_text)>>>>)>>>>) }

RequestBodies ==
    {D("in", <<>>), RefOnly}
    \cup {Content(j, f) : j \in BodySchemas \cup {Absent, None},
                          f \in BodySchemas \cup {Absent, None}}

\* Operations: the texts alone, with parameters, with a request body.
OperationInputs ==
    OperationTexts
    \cup {D("in", <<<<s_summary, S(t_summary)>>, <<s_parameters, l>>>>) : l \in ParameterLists}
    \cup {D("in", <<<<s_requestBody, b>>>>) : b \in RequestBodies}
    \cup {D("in", <<<<s_requestBody, Content(TypeOnly(s_string), Absent)>>,
                    <<s_parameters, L("in", <<p>>)>>>>) : p \in ParamInputs}

\* Path items: up to MaxMethods distinct keys in every order, each with an
\* operation of its own.
MaxMethods == 2

t_GET == <<"G", "E", "T">>

t_Post == <<"P", "o", "s", "t">>

t_put == <<"p", "u", "t">>

t_options == <<"o", "p", "t", "i", "o", "n", "s">>

MethodKeys == {s_get, t_GET, t_Post, s_patch, s_delete, t_put, t_options, s_parameters}

OperationOf(key) == D("in", <<<<s_summary, S(key)>>>>)

PathItems ==
    {D("in", [i \in 1..Len(keys) |-> <<keys[i], OperationOf(keys[i])>>]) :
        keys \in {ks \in UNION {[1..n -> MethodKeys] : n \in 0..MaxMethods} :
                     \A i, j \in 1..Len(ks) : i # j => ks[i] # ks[j]}}

Document(paths) == D("in", <<<<s_paths, D("in", paths)>>>>)

DocumentInputs ==
    {D("in", <<>>), Document(<<<<t_pets, S(t_text)>>>>)}
    \cup {Document(<<<<t_pet, D("in", <<<<s_get, o>>>>)>>>>) : o \in OperationInputs}
    \cup {Document(<<<<t_pets, p>>>>) : p \in PathItems}
    \cup {Document(<<<<t_pet, p>>, <<t_pets, q>>>>) :
             p \in PathItems,
             q \in {D("in", <<>>),
                    D("in", <<<<t_put, OperationOf(t_put)>>, <<s_post, OperationOf(s_post)>>>>)}}

(***************************************************************************)
(* The calls.                                                              *)
(***************************************************************************)
Init ==
    /\ pc = "idle"
    /\ op = "none"
    /\ arg = None
    /\ ret = None
    /\ after = None
    /\ tools = <<>>
    /\ idx = 0
    /\ fixed_tools = <<>>
    /\ failed_tools = <<>>

\* validate_and_fix_tool(t)
CallValidateAndFixTool ==
    /\ pc = "idle"
    /\ \E t \in ToolInputs :
          LET r == validate_and_fix_tool(t)
          IN  /\ arg' = t
              /\ ret' = r.ret
              /\ after' = r.after
    /\ op' = "validate_and_fix_tool"
    /\ pc' = "done"
    /\ UNCHANGED <<tools, idx, fixed_tools, failed_tools>>

\* A returned value handed in as the argument of the next call: its objects
\* are the caller's.
RECURSIVE AsArgument(_)
AsArgument(x) ==
    CASE x[1] = "list" -> L("in", [i \in 1..Len(x[3]) |-> AsArgument(x[3][i])])
      [] x[1] = "dict" -> D("in", [i \in 1..Len(x[3]) |-> <<x[3][i][1], AsArgument(x[3][i][2])>>])
      [] OTHER -> x

\* validate_and_fix_tool applied to the tool it returned.
ValidateAndFixToolAgain ==
    /\ pc = "done" /\ op = "validate_and_fix_tool" /\ ~IsExc(ret)
    /\ LET r == validate_and_fix_tool(AsArgument(ret))
       IN  /\ arg' = AsArgument(ret)
           /\ ret' = r.ret
           /\ after' = r.after
    /\ pc' = "again"
    /\ UNCHANGED <<op, tools, idx, fixed_tools, failed_tools>>

\* validate_and_fix_tools(ts): the lists are created empty.
BatchStart ==
    /\ pc = "idle"
    /\ \E ts \in BatchInputs :
          /\ arg' = L("in", ts)
          /\ tools' = ts
    /\ idx' = 1
    /\ fixed_tools' = <<>>
    /\ failed_tools' = <<>>
    /\ op' = "validate_and_fix_tools"
    /\ pc' = "loop"
    /\ UNCHANGED <<ret, after>>

\* except Exception as e: the message is printed, which calls tool.get, and
\* the record is appended.
FailedTool(tool, e) ==
    IF IsDict(tool)
    THEN D("new", <<<<s_tool, tool>>, <<s_error, S(e[3][2])>>>>)
    ELSE NoAttribute(tool, s_get_method)

\* One turn of the loop over tools: the tool is fixed and appended, or its
\* failure is recorded; an exception raised in the handler leaves the call.
BatchStep ==
    /\ pc = "loop" /\ idx <= Len(tools)
    /\ LET r == validate_and_fix_tool(tools[idx])
           failed == FailedTool(r.after, r.ret)
       IN  /\ tools' = [tools EXCEPT ![idx] = r.after]
           /\ IF ~IsExc(r.ret)
              THEN /\ fixed_tools' = Append(fixed_tools, r.ret)
                   /\ UNCHANGED <<failed_tools, ret>>
                   /\ pc' = "loop"
              ELSE IF ~IsExc(failed)
              THEN /\ failed_tools' = Append(failed_tools, failed)
                   /\ UNCHANGED <<fixed_tools, ret>>
                   /\ pc' = "loop"
              ELSE /\ ret' = failed
                   /\ UNCHANGED <<fixed_tools, failed_tools>>
                   /\ pc' = "raised"
    /\ idx' = idx + 1
    /\ UNCHANGED <<op, arg, after>>

\* return fixed_tools, failed_tools
BatchReturn ==
    /\ pc = "loop" /\ idx > Len(tools)
    /\ ret' = L("new", <<L("new", fixed_tools), L("new", failed_tools)>>)
    /\ after' = L("in", tools)
    /\ pc' = "done"
    /\ UNCHANGED <<op, arg, tools, idx, fixed_tools, failed_tools>>

\* process_schema(x)
CallProcessSchema ==
    /\ pc = "idle"
    /\ \E x \in FragmentInputs :
          /\ arg' = x
          /\ ret' = process_schema(x)
          /\ after' = x
    /\ op' = "process_schema"
    /\ pc' = "done"
    /\ UNCHANGED <<tools, idx, fixed_tools, failed_tools>>

\* process_schema applied to the fragment it returned.
ProcessSchemaAgain ==
    /\ pc = "done" /\ op = "process_schema" /\ ~IsExc(ret)
    /\ arg' = AsArgument(ret)
    /\ ret' = process_schema(AsArgument(ret))
    /\ after' = AsArgument(ret)
    /\ pc' = "again"
    /\ UNCHANGED <<op, tools, idx, fixed_tools, failed_tools>>

\* generate_tools_from_openapi(doc, base_url)
CallGenerateTools ==
    /\ pc = "idle"
    /\ \E doc \in DocumentInputs :
          /\ arg' = doc
          /\ ret' = generate_tools_from_openapi(doc, t_base_url)
          /\ after' = doc
    /\ op' = "generate_tools_from_openapi"
    /\ pc' = "done"
    /\ UNCHANGED <<tools, idx, fixed_tools, failed_tools>>

Next ==
    \/ CallValidateAndFixTool
    \/ ValidateAndFixToolAgain
    \/ BatchStart
    \/ BatchStep
    \/ BatchReturn
    \/ CallProcessSchema
    \/ ProcessSchemaAgain
    \/ CallGenerateTools

Spec == Init /\ [][Next]_vars

(***************************************************************************)
(* Properties.                                                             *)
(***************************************************************************)
\* validate_and_fix_tool was called; it returned a tool.
Called == op = "validate_and_fix_tool"

Returned == Called /\ ~IsExc(ret)

\* The first three parts of a name joined by "_", its last part, and what
\* is left for the middle parts.
NamePrefix(name) == Join(SubSeq(Split(name, "_"), 1, 3), <<"_">>)

NameSuffix(name) == Split(name, "_")[Len(Split(name, "_"))]

NameBudget(name) == MaxNameLen - Len(NamePrefix(name)) - Len(NameSuffix(name)) - 2

\* The tool's name is a string longer than MaxNameLen of at least 3 parts.
LongName(tool) ==
    /\ IsDict(tool) /\ Has(tool, s_name) /\ IsStr(Get(tool, s_name))
    /\ Len(Get(tool, s_name)[3]) > MaxNameLen
    /\ Len(Split(Get(tool, s_name)[3], "_")) >= 3

\* C4: every tool validate_and_fix_tool returns has a name of at most 64
\* characters.
C4_NameAtMost64 ==
    Returned => Len(Get(ret, s_name)[3]) <= MaxNameLen

\* C4 witness: a name longer than 64 characters reassembled from prefix,
\* middle and suffix to exactly 64 characters.
C4_Witness ==
    /\ Returned /\ LongName(arg) /\ NameBudget(Get(arg, s_name)[3]) > 0
    /\ Len(Get(ret, s_name)[3]) = MaxNameLen

\* C5 as claimed: every name longer than 64 characters with at least 3
\* parts comes back starting with its first three parts and ending with
\* "_" and its last part.
C5_Original ==
    (Returned /\ LongName(arg)) =>
        /\ StartsWith(Get(ret, s_name)[3], NamePrefix(Get(arg, s_name)[3]))
        /\ EndsWith(Get(ret, s_name)[3], <<"_">> \o NameSuffix(Get(arg, s_name)[3]))

\* C5 amended: such a name comes back starting with its first three parts
\* and ending with "_" and its last part when 64 - len(prefix) -
\* len(suffix) - 2 > 0; otherwise it comes back as its first 60 characters
\* followed by "...".
C5_PrefixSuffixKept ==
    (Returned /\ LongName(arg)) =>
        LET name == Get(arg, s_name)[3]
            fixed == Get(ret, s_name)[3]
        IN  IF NameBudget(name) > 0
            THEN /\ StartsWith(fixed, NamePrefix(name))
                 /\ EndsWith(fixed, <<"_">> \o NameSuffix(name))
            ELSE fixed = Prefix(name, TruncKeep) \o s_ellipsis

\* C5 witness: a 65-character name of 5 parts that was reassembled.
C5_Witness ==
    /\ Returned /\ LongName(arg)
    /\ Len(Get(arg, s_name)[3]) = MaxNameLen + 1
    /\ NameBudget(Get(arg, s_name)[3]) > 0
    /\ Get(ret, s_name) # Get(arg, s_name)

\* The call raised the missing-field error for this field.
MissingFieldError(field) == Called /\ ret = MissingField(field)

AnyMissingFieldError == \E i \in 1..Len(required_fields) : MissingFieldError(required_fields[i])

\* C7 as claimed: on a tool mapping the missing-field error is raised if
\* and only if name is absent.
C7_Original ==
    (Called /\ IsDict(arg)) => (AnyMissingFieldError <=> ~Has(arg, s_name))

\* C7 amended: on a tool mapping whose name, when present, is a string, the
\* missing-field error is raised if and only if name or input_schema is
\* absent (for name when name is absent, else for input_schema), never for
\* description: a missing description is defaulted to "Tool to " + name
\* with every "_" replaced by a space.
C7_MissingFieldIffNameOrSchema ==
    (Called /\ IsDict(arg) /\ (Has(arg, s_name) => IsStr(Get(arg, s_name)))) =>
        /\ MissingFieldError(s_name) <=> ~Has(arg, s_name)
        /\ MissingFieldError(s_input_schema) <=>
               (Has(arg, s_name) /\ ~Has(arg, s_input_schema))
        /\ ~MissingFieldError(s_description)
        /\ (Returned /\ ~Has(arg, s_description)) =>
               Get(ret, s_description) =
                   S(s_tool_to \o [i \in 1..Len(Get(arg, s_name)[3]) |->
                                     IF Get(arg, s_name)[3][i] = "_" THEN " "
                                     ELSE Get(arg, s_name)[3][i]])

\* C7 witness: a tool without description whose name has a "_" came back
\* with the default description.
C7_Witness ==
    /\ Returned /\ ~Has(arg, s_description)
    /\ \E i \in 1..Len(Get(arg, s_name)[3]) : Get(arg, s_name)[3][i] = "_"
    /\ Has(ret, s_description)

\* A 2-element anyOf list under x.
HasAnyOfPair(x) ==
    Has(x, s_anyOf) /\ IsList(Get(x, s_anyOf)) /\ Len(Get(x, s_anyOf)[3]) = 2

\* The key paths from mapping x, through mapping values only, to the
\* mappings inside it that have no ancestor with a 2-element anyOf list.
RECURSIVE MappingPaths(_)
MappingPaths(x) ==
    {<<>>} \cup
    (IF HasAnyOfPair(x) THEN {}
     ELSE UNION {{<<x[3][i][1]>> \o p : p \in MappingPaths(x[3][i][2])} :
                    i \in {j \in 1..Len(x[3]) : IsDict(x[3][j][2])}})

RECURSIVE HasPath(_, _)
HasPath(x, path) ==
    \/ path = <<>>
    \/ IsDict(x) /\ Has(x, Head(path)) /\ HasPath(Get(x, Head(path)), Tail(path))

RECURSIVE At(_, _)
At(x, path) == IF path = <<>> THEN x ELSE At(Get(x, Head(path)), Tail(path))

\* The fragment at path p of the repaired input_schema is a mapping without
\* anyOf whose type is the list [t, "null"].
CollapsedTo(p, t) ==
    /\ HasPath(Get(ret, s_input_schema), p)
    /\ LET g == At(Get(ret, s_input_schema), p)
       IN  /\ IsDict(g) /\ ~Has(g, s_anyOf)
           /\ Has(g, s_type)
           /\ Plain(Get(g, s_type)) = Plain(L("new", <<t, S(s_null)>>))

\* The fragment f at path p of input_schema has a type key that is iterated
\* after its anyOf key: its own, or for input_schema itself the defaulted one.
TypeAfterAnyOf(f, p) ==
    \/ Has(f, s_type) /\ KeyIndex(f, s_type) > KeyIndex(f, s_anyOf)
    \/ p = <<>> /\ ~Has(f, s_type)

IsExactlyNull(x) == Plain(x) = Plain(TypeOnly(s_null))

C10_Claim ==
    Returned =>
        \A p \in MappingPaths(Get(arg, s_input_schema)) :
            LET f == At(Get(arg, s_input_schema), p)
                g == At(Get(ret, s_input_schema), p)
                l == Get(f, s_anyOf)[3]
            IN  (/\ HasAnyOfPair(f)
                 /\ IsDict(l[1]) /\ Has(l[1], s_type)
                 /\ IsDict(l[2]) /\ Has(l[2], s_type)
                 /\ (IsNullType(l[1]) <=> IsNullType(l[2]))) =>
                    /\ HasPath(Get(ret, s_input_schema), p)
                    /\ Has(g, s_anyOf)
                    /\ IsList(Get(g, s_anyOf))
                    /\ Len(Get(g, s_anyOf)[3]) = 2

\* C8: validate_and_fix_tool and validate_and_fix_tools leave their
\* argument as it was, whether the call returns or raises, and no mutable
\* object of a returned tool is an object of the argument.
C8_InputUntouched ==
    /\ Called => /\ after = arg
                 /\ ~IsExc(ret) => "in" \notin Origins(ret)
    /\ op = "validate_and_fix_tools" =>
           /\ tools = arg[3]
           /\ \A i \in 1..Len(fixed_tools) : "in" \notin Origins(fixed_tools[i])

\* C8 witness: a call that defaulted the description, truncated the name
\* and defaulted the type of input_schema, and returned.
C8_Witness ==
    /\ Returned /\ pc = "done" /\ LongName(arg)
    /\ ~Has(arg, s_description)
    /\ ~Has(Get(arg, s_input_schema), s_type)
    /\ Has(ret, s_description)
    /\ Has(Get(ret, s_input_schema), s_type)

\* An element validate_and_fix_tool raises on.
IsFailure(tool) == IsExc(validate_and_fix_tool(tool).ret)

\* C1 as claimed: validate_and_fix_tools never raises, and returns every
\* element once: the fixed tools in input order, and one record per failed
\* element, in input order, holding the element itself.
C1_Claim ==
    op = "validate_and_fix_tools" =>
        /\ pc # "raised"
        /\ pc = "done" =>
               LET fixed == ret[3][1][3]
                   failed == ret[3][2][3]
                   good == SelectSeq(arg[3], LAMBDA t : ~IsFailure(t))
                   bad == SelectSeq(arg[3], LAMBDA t : IsFailure(t))
               IN  /\ Len(fixed) + Len(failed) = Len(arg[3])
                   /\ Len(fixed) = Len(good)
                   /\ \A i \in 1..Len(fixed) :
                          fixed[i] = validate_and_fix_tool(good[i]).ret
                   /\ Len(failed) = Len(bad)
                   /\ \A i \in 1..Len(failed) : Get(failed[i], s_tool) = bad[i]

\* The <<path, method, operation>> entries of a document in iteration order.
RECURSIVE EntriesFrom(_, _)
EntriesFrom(paths, i) ==
    IF i > Len(paths) THEN <<>>
    ELSE [j \in 1..Len(paths[i][2][3]) |->
             <<paths[i][1], paths[i][2][3][j][1], paths[i][2][3][j][2]>>]
         \o EntriesFrom(paths, i + 1)

Entries(doc) == IF Has(doc, s_paths) THEN EntriesFrom(Get(doc, s_paths)[3], 1) ELSE <<>>

Generated == op = "generate_tools_from_openapi" /\ ~IsExc(ret)

\* C2: the tools returned are, in iteration order, one for every (path,
\* method) entry whose method in lower case is get, post, patch or delete,
\* and none for any other key.
C2_OneToolPerSupportedEntry ==
    Generated =>
        LET wanted == SelectSeq(Entries(arg),
                          LAMBDA e : Lower(e[2]) \in {s_get, s_post, s_patch, s_delete})
        IN  /\ Len(ret[3]) = Len(wanted)
            /\ \A i \in 1..Len(wanted) :
                   LET properties == Get(Get(ret[3][i], s_input_schema), s_properties)
                   IN  /\ Get(ret[3][i], s_name) =
                              S(s_api_call \o Lower(wanted[i][2]) \o <<"_">> \o Endpoint(wanted[i][1]))
                       /\ Get(Get(properties, s_url), s_default) = S(t_base_url \o wanted[i][1])
                       /\ Plain(Get(Get(properties, s_method), s_enum)) =
                              Plain(L("new", <<S(Upper(wanted[i][2]))>>))
                       /\ wanted[i][3] = OperationOf(wanted[i][2]) =>
                              Get(ret[3][i], s_description) = S(wanted[i][2])

\* C2 witness: two paths, the first with a supported method written in
\* capitals and an unsupported key, the second with put before post: two
\* tools.
C2_Witness ==
    /\ Generated
    /\ Len(Entries(arg)) = 4
    /\ Entries(arg)[1][2] = t_options
    /\ Entries(arg)[2][2] = t_GET
    /\ Len(ret[3]) = 2

\* C3: process_schema applied to a fragment it returned succeeds and
\* returns that fragment.
C3_Idempotent ==
    (op = "process_schema" /\ pc = "again") =>
        ~IsExc(ret) /\ Plain(ret) = Plain(arg)

\* C3 witness: the second pass over a fragment whose composition the first
\* pass simplified, with nested properties.
C3_Witness ==
    /\ op = "process_schema" /\ pc = "again" /\ ~IsExc(ret)
    /\ HasPath(ret, <<s_properties, t_extra, s_description>>)
    /\ IsStr(Get(Get(Get(ret, s_properties), t_extra), s_description))
    /\ EndsWith(Get(Get(Get(ret, s_properties), t_extra), s_description)[3], s_simplified)

\* The first usable of description, summary and the 200 response's
\* description, else the empty string.
FirstUsable(operation) ==
    LET usable(x, key) == IsDict(x) /\ Has(x, key) /\ Truthy(Get(x, key))
        response == Get(Get(operation, s_responses), s_200)
    IN  IF usable(operation, s_description) THEN Get(operation, s_description)
        ELSE IF usable(operation, s_summary) THEN Get(operation, s_summary)
        ELSE IF /\ Has(operation, s_responses)
                /\ Has(Get(operation, s_responses), s_200)
                /\ usable(response, s_description)
        THEN Get(response, s_description)
        ELSE S(<<>>)

\* C9 as claimed: the tool's description is the first usable of the
\* operation's description, its summary and its 200 response's description,
\* else the empty string.
C9_Claim ==
    Generated =>
        LET wanted == SelectSeq(Entries(arg),
                          LAMBDA e : Lower(e[2]) \in {s_get, s_post, s_patch, s_delete})
        IN  \A i \in 1..Len(wanted) :
                i <= Len(ret[3]) => Get(ret[3][i], s_description) = FirstUsable(wanted[i][3])

(***************************************************************************)
(* C11: the simplification of anyOf / oneOf / allOf in process_schema.     *)
(***************************************************************************)
\* The first call of process_schema has returned.
Processed == op = "process_schema" /\ pc = "done" /\ ~IsExc(ret)

\* The composition keys of fragment x that hold a non-empty sequence.
Simplifiable(x) ==
    {c \in compositions : Has(x, c) /\ IsList(Get(x, c)) /\ Len(Get(x, c)[3]) > 0}

\* The keys of mapping x.
Keys(x) == {x[3][i][1] : i \in 1..Len(x[3])}

\* D + " (Simplified from multiple options)", D the description of x or "".
Suffixed(x) == S(GetOr(x, s_description, S(<<>>))[3] \o s_simplified)

\* C11 as claimed: a fragment with a non-empty composition sequence
\* [A, B, ...] comes back as the pairs of process_schema(A) merged into the
\* result, with description D + " (Simplified from multiple options)",
\* whatever the order of the fragment's keys; no composition key is left
\* and the result has no key from elsewhere than A and the fragment.
C11_Claim ==
    Processed =>
        \A c \in Simplifiable(arg) :
            LET first == process_schema(Get(arg, c)[3][1])
            IN  /\ Has(ret, s_description)
                /\ Plain(Get(ret, s_description)) = Plain(Suffixed(arg))
                /\ Keys(ret) \cap compositions = {}
                /\ Keys(ret) \subseteq Keys(first) \cup (Keys(arg) \ compositions)
                /\ \A k \in Keys(first) \ {s_description} :
                       Has(ret, k) /\ Plain(Get(ret, k)) = Plain(Get(first, k))

(***************************************************************************)
(* C12: no components pointer is left in a repaired input_schema.          *)
(***************************************************************************)
\* x is, or holds at some depth of its mappings and sequences, a mapping
\* with a $ref key whose value is a string starting with "#/components/".
RECURSIVE HoldsPointer(_)
HoldsPointer(x) ==
    \/ /\ IsDict(x)
       /\ \/ /\ Has(x, s_ref)
             /\ IsStr(Get(x, s_ref))
             /\ StartsWith(Get(x, s_ref)[3], s_components)
          \/ \E i \in 1..Len(x[3]) : HoldsPointer(x[3][i][2])
    \/ /\ IsList(x)
       /\ \E i \in 1..Len(x[3]) : HoldsPointer(x[3][i])

\* C12 as claimed: the input_schema of a tool validate_and_fix_tool returned
\* has, at no depth of its mappings and sequences, a mapping with a $ref
\* key whose value is a string starting with "#/components/".
C12_Claim == Returned => ~HoldsPointer(Get(ret, s_input_schema))

(***************************************************************************)
(* C13: the params schema of a generated tool.                             *)
(***************************************************************************)
\* The entries of the document a tool is generated for, in order.
Wanted(doc) ==
    SelectSeq(Entries(doc), LAMBDA e : Lower(e[2]) \in supported_methods)

\* The parameters of an operation that are marked required.
RequiredParams(operation) ==
    IF Has(operation, s_parameters)
    THEN SelectSeq(Get(operation, s_parameters)[3],
                   LAMBDA p : Truthy(GetOr(p, s_required, Bool(FALSE))))
    ELSE <<>>

\* C13 as claimed: in a generated tool that has params, every name of
\* params.required is a key of params.properties; and every parameter
\* marked required is listed in the required of an attached params, with a
\* schema under its name.
C13_Claim ==
    Generated =>
        \A i \in 1..Len(Wanted(arg)) :
            i <= Len(ret[3]) =>
                LET properties == Get(Get(ret[3][i], s_input_schema), s_properties)
                    params == Get(properties, s_params)
                    listed == {Get(params, s_required)[3][j] :
                                  j \in 1..Len(Get(params, s_required)[3])}
                    required == RequiredParams(Wanted(arg)[i][3])
                IN  /\ Has(properties, s_params) =>
                           \A n \in listed : Has(Get(params, s_properties), n[3])
                    /\ \A j \in 1..Len(required) :
                           /\ Has(properties, s_params)
                           /\ Get(required[j], s_name) \in listed
                           /\ Has(Get(params, s_properties), Get(required[j], s_name)[3])

(***************************************************************************)
(* C14: validate_and_fix_tool applied twice.                               *)
(***************************************************************************)
\* C14 as claimed: validate_and_fix_tool applied to a tool it returned
\* succeeds and returns that tool.
C14_Claim ==
    (Called /\ pc = "again") => ~IsExc(ret) /\ Plain(ret) = Plain(arg)
====
